---- MODULE Spec2Model ----
(***************************************************************************)
(* Model of the query-understanding and response engine of the             *)
(* optommarket bot: AIService (bot/services/ai_service.py) with its        *)
(* per-user conversation contexts, ProductService.ai_search                *)
(* (bot/services/product_service.py), the text handler that runs them in   *)
(* one turn (bot/handlers/ai_chat.py) and the knowledge base file that the *)
(* admin panel (admin/app.py) writes.                                      *)
(*                                                                         *)
(* All handlers are coroutines of one asyncio event loop (bot/main.py):    *)
(* code between two awaits runs as one step, so every action below is the  *)
(* code from one suspension point to the next.                             *)
(***************************************************************************)
EXTENDS Integers, Sequences, FiniteSets, TLC

\* ----------------------------------------------------------------- bounds
\* Turns (get_response invocations) started in one run.
MaxTurns == 6

\* Coroutines that may be inside get_response at the same time.
Tasks == {1, 2}
\* User ids.
Users == {1, 2}

\* ------------------------------------------------------ program constants
max_retries == 4
base_delay == 3
\* self.user_contexts[user_id][-10:]
ContextCap == 10
\* self.user_contexts.get(user_id, [])[-5:]
HistoryWindow == 5
\* products[:5]
ContextProducts == 5

\* ------------------------------------------------------------------ values
\* A text is tagged with the turn (message number) it belongs to: the user's
\* message of turn n, or the model's reply to the request of turn n.
Text(n, b) == [turn |-> n, body |-> b]
NoText == Text(0, "")
FallbackAnswer ==
    Text(0, "Kechirasiz, hozirda texnik xatolik yuz berdi. Iltimos, birozdan so'ng qayta urinib ko'ring.")
LoopEndAnswer == Text(0, "Kechirasiz, javob olishning imkoni bo'lmadi.")

\* str.strip() on the bodies a reply can have.
Strip(x) == IF x.body = " javob " THEN Text(x.turn, "javob") ELSE x

\* A Python value of a product field: an int, a str, None, or a missing key.
IntV(n) == [tag |-> "int", val |-> n]
StrV == [tag |-> "str", val |-> 0]
NoneV == [tag |-> "none", val |-> 0]
AbsentV == [tag |-> "absent", val |-> 0]

Product(i, t, p, s) == [id |-> i, title |-> t, price |-> p, stock |-> s]

\* products_context as passed by the callers: None or a list.
NoProducts == [given |-> FALSE, items |-> <<>>]
ProductList(s) == [given |-> TRUE, items |-> s]

LastN(s, n) == IF Len(s) <= n THEN s ELSE SubSeq(s, Len(s) - n + 1, Len(s))
FirstN(s, n) == IF Len(s) <= n THEN s ELSE SubSeq(s, 1, n)

\* ------------------------------------------------ _format_products_context
\* p.get(key, 0): the default for a missing key, the stored value otherwise.
GetOrZero(v) == IF v.tag = "absent" THEN IntV(0) ELSE v

\* float(p.get('price', 0) or 0); ValueError and TypeError give "0".
PriceVal(p) ==
    LET v == GetOrZero(p.price)
    IN IF v.tag = "int" THEN v.val ELSE 0

RECURSIVE ThousandGroups(_)
\* f"{price_val:,.0f}".replace(",", " "): the groups of three digits.
ThousandGroups(n) ==
    IF n < 1000 THEN <<n>> ELSE Append(ThousandGroups(n \div 1000), n % 1000)

\* p.get('stock', 0) > 0 raises TypeError for None and for a str;
\* p['id'] and p['title'] raise KeyError for a missing key.
FormatLineRaises(p) ==
    \/ GetOrZero(p.stock).tag # "int"
    \/ p.id.tag = "absent"
    \/ p.title.tag = "absent"

FormatLine(p) ==
    [id |-> p.id, title |-> p.title, price |-> ThousandGroups(PriceVal(p)),
     stock_status |-> IF GetOrZero(p.stock).val > 0 THEN "Mavjud" ELSE "Tugagan"]

FormatRaises(products) ==
    \E i \in 1..Len(FirstN(products, ContextProducts)) : FormatLineRaises(products[i])

\* The returned string: the placeholder sentence for no products, else the lines.
FormatProductsContext(products) ==
    IF products = <<>>
    THEN [placeholder |-> TRUE, lines |-> <<>>]
    ELSE [placeholder |-> FALSE,
          lines |-> [i \in 1..Len(FirstN(products, ContextProducts)) |-> FormatLine(products[i])]]

EmptyStr == [placeholder |-> FALSE, lines |-> <<>>]
\* Python truth value of the string.
Truthy(s) == s.placeholder \/ s.lines # <<>>

\* "products_context or []"
OrEmpty(pc_arg) == IF pc_arg.given THEN pc_arg.items ELSE <<>>

\* ---------------------------------------------------- _build_system_prompt
\* categories: "" (provider failed or no category) or the joined names.
BuildSystemPrompt(kb, categories, products_str) ==
    [kb |-> kb,
     categories |-> IF categories # "" THEN categories ELSE "Ma'lumot yo'q",
     has_products |-> Truthy(products_str),
     products |-> IF Truthy(products_str) THEN products_str ELSE EmptyStr]

NoPrompt == BuildSystemPrompt("", "", EmptyStr)

\* ----------------------------------------------------------- knowledge base
\* _load_knowledge_base: the content of the file, the defaults without one.
LoadKnowledgeBase(file) == IF file = "absent" THEN "default" ELSE file

\* The contents the admin panel saves.
KBUpdates == {"edited"}

\* ------------------------------------------------------------ user_contexts
\* self.user_contexts.get(user_id, [])
ContextGet(ctxs, uid) == IF uid \in DOMAIN ctxs THEN ctxs[uid] ELSE <<>>

\* Mutant: one list shared by every user.
ContextPutShared(ctxs, uid, h) ==
    [k \in DOMAIN ctxs \cup {uid} |-> h]

ContextPut(ctxs, uid, h) ==
    [k \in DOMAIN ctxs \cup {uid} |-> IF k = uid THEN h ELSE ctxs[k]]

Turn(role, text) == [role |-> role, text |-> text]

\* Mutant: the cut is off by one.
TrimContextOdd(h) == LastN(h, ContextCap - 1)

\* Mutant: the oldest turns are kept.
TrimContextOldest(h) == FirstN(h, ContextCap)

\* Mutant: the list is never cut.
TrimContextNever(h) == h

\* Line 284: self.user_contexts[user_id][-10:]
TrimContext(h) == LastN(h, ContextCap)

\* Mutant: the answer is stored before the utterance.
UpdateUserContextSwapped(ctxs, uid, msg, ans) ==
    LET h == ContextGet(ctxs, uid)
        h2 == Append(Append(h, Turn("model", ans)), Turn("user", msg))
    IN ContextPut(ctxs, uid, TrimContext(h2))

\* Lines 277-284: create the list if missing, append both turns, keep the last 10.
UpdateUserContext(ctxs, uid, msg, ans) ==
    LET h == ContextGet(ctxs, uid)
        h2 == Append(Append(h, Turn("user", msg)), Turn("model", ans))
    IN ContextPut(ctxs, uid, TrimContext(h2))

\* Mutant: the last exchange survives the clear.
ClearedContextsButLast(ctxs, uid) ==
    [k \in DOMAIN ctxs |-> IF k = uid THEN LastN(ctxs[k], 2) ELSE ctxs[k]]

\* clear_user_context: del self.user_contexts[user_id] if present.
ClearedContexts(ctxs, uid) ==
    [k \in DOMAIN ctxs \ {uid} |-> ctxs[k]]

\* Mutant: the whole stored history is sent.
BuildContentsWhole(ctxs, uid, msg) ==
    Append(ContextGet(ctxs, uid), Turn("user", msg))

\* Mutant: the message is put before the history.
BuildContentsMessageFirst(ctxs, uid, msg) ==
    <<Turn("user", msg)>> \o LastN(ContextGet(ctxs, uid), HistoryWindow)

\* The contents sent to the model: the last 5 stored turns, then the message.
BuildContents(ctxs, uid, msg) ==
    Append(LastN(ContextGet(ctxs, uid), HistoryWindow), Turn("user", msg))

\* ------------------------------------------------------------ model outcomes
\* What one generate_content call can give: a reply text (plain or padded with
\* white space), an error whose str() holds "429" or "ResourceExhausted", or
\* any other exception (this includes response.text being None and
\* self.client being None).
ModelOutcomes == {"reply", "padded_reply", "rate_limit", "error"}
IsReply(o) == o \in {"reply", "padded_reply"}
IsRateLimit(o) == o = "rate_limit"
ReplyText(o, n) == IF o = "padded_reply" THEN Text(n, " javob ") ELSE Text(n, "javob")

\* Mutant: the user's message is stored before the call, the answer after it.
ContextAfterAttemptEager(ctxs, uid, msg, o) ==
    IF IsReply(o)
    THEN UpdateUserContext(ctxs, uid, msg, Strip(ReplyText(o, msg.turn)))
    ELSE ContextPut(ctxs, uid, Append(ContextGet(ctxs, uid), Turn("user", msg)))

\* The contexts after one attempt of the retry loop (lines 262-302): only the
\* success path writes.
ContextAfterAttempt(ctxs, uid, msg, o) ==
    IF IsReply(o)
    THEN UpdateUserContext(ctxs, uid, msg, Strip(ReplyText(o, msg.turn)))
    ELSE ctxs

\* delay = base_delay * (2 ** attempt)
Delay(attempt) == base_delay * (2 ^ attempt)

\* Mutant: the last attempt sleeps too.
SleepsBeforeRetryAlways(o, attempt) == IsRateLimit(o) /\ attempt < max_retries

\* The except branch sleeps before the next attempt.
SleepsBeforeRetry(o, attempt) == IsRateLimit(o) /\ attempt < max_retries - 1

\* Mutant: the apology is returned only for an error that is not a rate limit.
ReturnsFallbackUnlessRateLimit(o, attempt) == attempt = max_retries - 1 /\ ~IsRateLimit(o)

\* The except branch returns the fallback.
ReturnsFallback(o, attempt) ==
    ~IsReply(o) /\ ~SleepsBeforeRetry(o, attempt) /\ attempt = max_retries - 1

\* ------------------------------------------------------------- ai_search
\* Rows of the catalog drawn for one run.
CatalogSize == 6
\* limit=5 of both search_products calls.
SearchLimit == 5

\* An Optional[str]: None, or a string as the list of its words (str.split()).
NoneS == [tag |-> "none", words |-> <<>>]
Str(ws) == [tag |-> "str", words |-> ws]
\* Truth value: None and "" are false.
TruthyStr(s) == s.tag = "str" /\ s.words # <<>>
LowerWord(w) == IF w = "TV" THEN "tv" ELSE w
\* str.lower()
Lower(s) == Str([i \in DOMAIN s.words |-> LowerWord(s.words[i])])

SearchParams(q, tr, lo, hi, flag) ==
    [search_query |-> q, translated_keywords |-> tr, min_price |-> lo,
     max_price |-> hi, is_product_search |-> flag]

\* The dicts json.loads can give for the model's reply.  is_product_search is
\* true, false or missing; a missing translated_keywords reads as None.
ParsedParams ==
    {SearchParams(q, tr, f[1], f[2], flag) :
        q \in {NoneS, Str(<<>>), Str(<<"tv">>)},
        tr \in {NoneS, Str(<<"tv">>), Str(<<"TV">>), Str(<<"televizor">>)},
        f \in {<<NoneV, NoneV>>, <<IntV(200), IntV(500)>>},
        flag \in {"true", "false", "absent"}}

\* The texts sent to ai_search: one word, three words, more than three words.
SearchMessages ==
    {Str(<<"tv">>), Str(<<"arzon", "tv", "bormi">>),
     Str(<<"do'kon", "qayerda", "joylashgan", "ekan">>)}

\* Mutant: messages of fewer than three words are searched.
FallbackParamsShorter(user_message) ==
    IF Len(user_message.words) < 3
    THEN SearchParams(user_message, NoneS, NoneV, NoneV, "true")
    ELSE SearchParams(user_message, NoneS, NoneV, NoneV, "false")

\* extract_search_params, lines 199-219: the dict returned when the model
\* call or the parsing failed.
FallbackParams(user_message) ==
    IF Len(user_message.words) <= 3
    THEN SearchParams(user_message, NoneS, NoneV, NoneV, "true")
    ELSE SearchParams(user_message, NoneS, NoneV, NoneV, "false")

\* A reply text of the extraction call, as far as lines 184-192 tell its
\* characters apart: the braces, white space (" "), text that is valid
\* inside a JSON object ("j") and any other text ("x").
ReplyTexts ==
    {<<"{", "j", "}">>, <<" ", "x", "{", "j", " ", "}", "x", " ">>,
     <<>>, <<" ">>, <<"x">>, <<"{", "j">>, <<"j", "}">>, <<"}", "{">>,
     <<"{", "x", "}">>, <<"{", "j", "}", "{", "j", "}">>}

\* What the extraction's model call can give: a reply text, an exception of
\* the API, response.text None, or self.client None.
ExtractOutcomes ==
    {[kind |-> "text", text |-> t] : t \in ReplyTexts}
        \cup {[kind |-> k, text |-> <<>>] : k \in {"api_error", "no_text", "no_client"}}

RECURSIVE StripText(_)
\* str.strip()
StripText(text) ==
    IF text # <<>> /\ Head(text) = " " THEN StripText(Tail(text))
    ELSE IF text # <<>> /\ text[Len(text)] = " " THEN StripText(SubSeq(text, 1, Len(text) - 1))
    ELSE text

Positions(text, c) == {i \in 1..Len(text) : text[i] = c}
\* str.find: the first position counted from 1, 0 where Python gives -1.
Find(text, c) ==
    IF Positions(text, c) = {} THEN 0
    ELSE CHOOSE i \in Positions(text, c) : \A j \in Positions(text, c) : i <= j
\* str.rfind: the last position counted from 1, 0 where Python gives -1.
RFind(text, c) ==
    IF Positions(text, c) = {} THEN 0
    ELSE CHOOSE i \in Positions(text, c) : \A j \in Positions(text, c) : i >= j

\* text[start:end+1]: empty when the last "}" is before the first "{".
JsonStr(text) == SubSeq(text, Find(text, "{"), RFind(text, "}"))

\* json.loads accepts the string: one object.
IsJsonObject(str) ==
    /\ Len(str) >= 2
    /\ str[1] = "{"
    /\ str[Len(str)] = "}"
    /\ \A i \in 2..(Len(str) - 1) : str[i] \in {"j", " "}

\* The class of the exception raised inside the try of lines 178-197, "none"
\* when json.loads returned the dict.
ExtractError(o) ==
    IF o.kind = "no_client" THEN "AttributeError"
    ELSE IF o.kind = "api_error" THEN "APIError"
    ELSE IF o.kind = "no_text" THEN "AttributeError"
    ELSE LET text == StripText(o.text)
         IN IF Find(text, "{") = 0 \/ RFind(text, "}") = 0 THEN "ValueError"
            ELSE IF ~IsJsonObject(JsonStr(text)) THEN "JSONDecodeError"
            ELSE "none"

\* The error class of every outcome, as a table.
ErrorOf == [o \in ExtractOutcomes |-> ExtractError(o)]

\* Mutant: the handler is "except ValueError".
CaughtValueError(e) == e \in {"ValueError", "JSONDecodeError"}

\* Line 199, "except Exception": every class the try block raises is one.
Caught(e) == e \in {"AttributeError", "APIError", "ValueError", "JSONDecodeError"}

\* Mutant: only a missing flag stops the search.
IsProductSearchUnlessMissing(params) == params.is_product_search # "absent"

\* params.get('is_product_search', False), as a truth value.
IsProductSearch(params) == params.is_product_search = "true"

\* The WHERE clause of get_products for one row.
RowMatches(row, query, min_price, max_price) ==
    /\ row.activity = 1
    /\ TruthyStr(query) =>
          \A i \in DOMAIN query.words : query.words[i] \in row.words
    /\ min_price.tag # "none" => row.price >= min_price.val
    /\ max_price.tag # "none" => row.price <= max_price.val
    /\ row.stock > 0 \/ row.stock = -1

\* Mutant: the join gives every product row twice.
GetProductsJoined(cat, query, min_price, max_price, limit) ==
    LET matching == SelectSeq(cat, LAMBDA r : RowMatches(r, query, min_price, max_price))
        rows == FirstN([i \in 1..(2 * Len(matching)) |-> matching[(i + 1) \div 2]], limit)
    IN [i \in 1..Len(rows) |->
           Product(IntV(rows[i].id), StrV, IntV(rows[i].price), IntV(rows[i].stock))]

\* DatabaseService.get_products with category_id=None, in_stock=True, offset=0.
GetProducts(cat, query, min_price, max_price, limit) ==
    LET rows == FirstN(SelectSeq(cat, LAMBDA r : RowMatches(r, query, min_price, max_price)), limit)
    IN [i \in 1..Len(rows) |->
           Product(IntV(rows[i].id), StrV, IntV(rows[i].price), IntV(rows[i].stock))]

\* ProductService.search_products: the rows, each with its formatted price.
SearchProducts(cat, query, min_price, max_price, limit) ==
    LET found == GetProducts(cat, query, min_price, max_price, limit)
    IN [i \in 1..Len(found) |->
           [id |-> found[i].id, title |-> found[i].title, price |-> found[i].price,
            stock |-> found[i].stock,
            formatted_price |-> ThousandGroups(PriceVal(found[i]))]]

Ids(products) == {products[i].id : i \in 1..Len(products)}

\* Mutant: the second lookup's results are put first.
MergeSecondFirst(products, more_products) ==
    SelectSeq(more_products, LAMBDA p : p.id \notin Ids(products)) \o products

\* Mutant: everything the second lookup returned is appended.
MergeAll(products, more_products) == products \o more_products

\* Lines 141-145: existing_ids is taken from the first lookup's results.
Merge(products, more_products) ==
    products \o SelectSeq(more_products, LAMBDA p : p.id \notin Ids(products))

\* Line 133: the second lookup is made.
SearchesAgain(params) ==
    /\ TruthyStr(params.translated_keywords)
    /\ TruthyStr(params.search_query)
    /\ Lower(params.translated_keywords) # Lower(params.search_query)

Lookup(q, params, returned) ==
    [query |-> q, min_price |-> params.min_price, max_price |-> params.max_price,
     limit |-> SearchLimit, returned |-> returned]

IdleSearch ==
    [pc |-> "idle", user_message |-> NoneS,
     extract_calls |-> 0, extract_error |-> "none",
     params |-> SearchParams(NoneS, NoneS, NoneV, NoneV, "absent"),
     products |-> <<>>, lookups |-> <<>>, result |-> <<>>, is_product_search |-> FALSE]

\* No product search has returned yet.
NoSearch == [params |-> IdleSearch.params, result |-> <<>>]

\* Row i of the catalog, the rows taken by rising sort and falling id.
CatalogRow(i, words) ==
    [id |-> CatalogSize + 1 - i, sort |-> (i - 1) \div 3, words |-> words,
     price |-> 100 * i, stock |-> 3, activity |-> 1]

\* Mutant: ORDER BY p.sort ASC alone.
OrderKeySortOnly(row) == <<row.sort, 0>>

\* ORDER BY p.sort ASC, p.id DESC
OrderKey(row) == <<row.sort, 0 - row.id>>

Swapped(cat, k) ==
    [i \in 1..Len(cat) |-> IF i = k THEN cat[k + 1] ELSE IF i = k + 1 THEN cat[k] ELSE cat[i]]

\* The orders in which a query may deliver the sorted rows: rows with equal
\* keys come in either order.
ResultOrders(cat) ==
    {cat} \cup {Swapped(cat, k) : k \in {j \in 1..(Len(cat) - 1) :
                                            OrderKey(cat[j]) = OrderKey(cat[j + 1])}}

\* The words a row matches under LIKE.
RowWords == {{}, {"tv"}, {"televizor"}, {"tv", "televizor"}}

Catalogs ==
    {[i \in 1..CatalogSize |-> CatalogRow(i, w[i])] : w \in [1..CatalogSize -> RowWords]}

\* ------------------------------------------------------------------- state
VARIABLES
    user_contexts,   \* AIService.user_contexts: user id -> list of turns
    knowledge_base,  \* AIService.knowledge_base
    turns_ok,        \* per user: turns recorded since the last clear (history)
    next_msg,        \* messages handed to get_response so far
    tasks,           \* per coroutine: its position in get_response and locals
    trace,           \* the model calls and sleeps of the observed invocation
    catalog,         \* the rows of mg_product, sorted by the key of ORDER BY
    search,          \* one ai_search call: its position, locals and lookups
    turn,            \* one handle_text_message call: its position, locals,
                     \* the external calls of the turn and what it sent
    kb_file,         \* data/knowledge_base.json: "absent" or its content
    last_search,     \* the intent and the result of the product search that
                     \* returned before the one under way (history)
    reset_at,        \* per user: the messages sent when the context was last
                     \* cleared (history)
    sent_by,         \* the sender of each message, in the order sent (history)
    mg_category      \* the titles of the visible categories of the catalog

vars == <<user_contexts, knowledge_base, turns_ok, next_msg, tasks, trace,
          catalog, search, turn, kb_file, last_search, reset_at,
          sent_by, mg_category>>
composer_vars == <<user_contexts, knowledge_base, turns_ok, next_msg, tasks, trace, kb_file,
                   last_search, reset_at, sent_by, mg_category>>

IdleTask ==
    [pc |-> "idle", user_id |-> 0, user_message |-> NoText,
     products_context |-> NoProducts, system_prompt |-> NoPrompt,
     contents |-> <<>>, attempt |-> 0, delay |-> 0,
     answer |-> NoText, products |-> <<>>]

NoTrace == [outcomes |-> <<>>, sleeps |-> <<>>]

\* What handle_text_message sends: a text, the numbered products under it
\* and the products of the keyboard.
Message(text, listed, keyboard) == [text |-> text, listed |-> listed, keyboard |-> keyboard]
NothingSent == Message(NoText, <<>>, <<>>)
HandlerApology ==
    Message(Text(0, "Kechirasiz, hozirda texnik muammo bor. Iltimos, keyinroq urinib ko'ring."),
            <<>>, <<>>)

IdleTurn ==
    [pc |-> "idle", calls |-> <<>>, products |-> <<>>, is_product_search |-> FALSE,
     sent |-> NothingSent]

GoodProduct == Product(IntV(1), StrV, IntV(150000), IntV(3))
NullStockProduct == Product(IntV(2), StrV, NoneV, NoneV)
NoIdProduct == Product(AbsentV, StrV, StrV, AbsentV)

\* The product lists a caller passes to get_response.
ProductInputs ==
    {NoProducts, ProductList(<<>>), ProductList(<<GoodProduct>>),
     ProductList(<<GoodProduct, NullStockProduct>>), ProductList(<<NoIdProduct>>)}
\* The lists drawn where coroutines run concurrently.
FewProductInputs == {NoProducts, ProductList(<<NullStockProduct>>)}

\* get_all_category_names: the joined names, "" or an exception.
\* DatabaseService(): the pool of a new instance is None (database.py lines
\* 27-28); the pool of the module's instance db is open once on_startup has
\* awaited db.connect() (main.py line 188).
DatabaseService == [pool |-> "None"]
db == [pool |-> "open"]

CategoryTables == {<<>>, <<"Elektronika">>, <<"Elektronika", "Kiyim">>}

\* ", ".join of the titles.
RECURSIVE JoinTitles(_)
JoinTitles(titles) ==
    IF Len(titles) = 1
    THEN titles[1]
    ELSE JoinTitles(SubSeq(titles, 1, Len(titles) - 1)) \o ", " \o titles[Len(titles)]

\* get_all_category_names: self.pool.acquire() raises when the pool is None;
\* "" when no category is visible, else the joined titles.
GetAllCategoryNames(service, titles) ==
    IF service.pool = "None"
    THEN "raise"
    ELSE IF titles = <<>> THEN "" ELSE JoinTitles(titles)

\* What _build_system_prompt gets from its provider (lines 105-110).
CategoryOutcomes == {GetAllCategoryNames(DatabaseService, titles) : titles \in CategoryTables}
FewCategoryOutcomes == {"raise"}

Init ==
    /\ user_contexts = << >>
    /\ kb_file = "absent"
    /\ last_search = NoSearch
    /\ reset_at = [u \in Users |-> 0]
    /\ sent_by = <<>>
    /\ mg_category = <<>>
    /\ knowledge_base = LoadKnowledgeBase(kb_file)
    /\ turns_ok = [u \in Users |-> 0]
    /\ next_msg = 0
    /\ tasks = [t \in Tasks |-> IdleTask]
    /\ trace = NoTrace
    /\ catalog = <<>>
    /\ search = IdleSearch
    /\ turn = IdleTurn

\* Mutant: the backoff is time.sleep, so no call starts while a coroutine
\* sleeps.
GetResponseWhenNoneSleeps(t, inputs, messages) ==
    /\ \A t2 \in Tasks : tasks[t2].pc # "sleeping"
    /\ tasks[t].pc \in {"idle", "done", "raised"}
    /\ next_msg < MaxTurns
    /\ \E uid \in Users, p \in inputs, m \in messages :
         /\ next_msg' = next_msg + 1
         /\ tasks' = [tasks EXCEPT ![t] =
               IF FormatRaises(OrEmpty(p))
               THEN [IdleTask EXCEPT !.pc = "raised"]
               ELSE [IdleTask EXCEPT
                       !.pc = "build_prompt",
                       !.user_id = uid,
                       !.user_message = Text(m, "xabar"),
                       !.products_context = p]]
    /\ UNCHANGED <<user_contexts, knowledge_base, turns_ok>>

\* get_response is called; lines 233-237 up to the await of the category
\* names.  _format_products_context runs outside any try.
GetResponseFor(t, uids, inputs, messages) ==
    /\ tasks[t].pc \in {"idle", "done", "raised"}
    /\ next_msg < MaxTurns
    /\ \E uid \in uids, p \in inputs, m \in messages :
         /\ next_msg' = next_msg + 1
         /\ tasks' = [tasks EXCEPT ![t] =
               IF FormatRaises(OrEmpty(p))
               THEN [IdleTask EXCEPT !.pc = "raised"]
               ELSE [IdleTask EXCEPT
                       !.pc = "build_prompt",
                       !.user_id = uid,
                       !.user_message = Text(m, "xabar"),
                       !.products_context = p]]
    /\ UNCHANGED <<user_contexts, knowledge_base, turns_ok>>

GetResponse(t, inputs, messages) == GetResponseFor(t, Users, inputs, messages)

\* The category provider answers; the prompt and the contents are built and
\* the first model call is issued (lines 108-272, attempt 0).
PromptBuilt(t, outcomes) ==
    /\ tasks[t].pc = "build_prompt"
    /\ \E c \in outcomes :
         LET categories == IF c = "raise" THEN "" ELSE c
             products_str == FormatProductsContext(OrEmpty(tasks[t].products_context))
         IN tasks' = [tasks EXCEPT ![t] =
               [@ EXCEPT
                  !.pc = "calling",
                  !.system_prompt = BuildSystemPrompt(knowledge_base, categories, products_str),
                  !.contents = BuildContents(user_contexts, tasks[t].user_id, tasks[t].user_message),
                  !.attempt = 0]]
    /\ UNCHANGED <<user_contexts, knowledge_base, turns_ok, next_msg>>

\* get_response returns: its locals are gone, the caller holds the pair.
Returned(tk, answer, products) ==
    [IdleTask EXCEPT !.pc = "done", !.user_id = tk.user_id,
                     !.user_message = tk.user_message,
                     !.answer = answer, !.products = products]

\* One pass of the loop body after the model call came back (lines 274-302).
AfterAttempt(tk, o) ==
    IF IsReply(o)
    THEN Returned(tk, Strip(ReplyText(o, tk.user_message.turn)), OrEmpty(tk.products_context))
    ELSE IF SleepsBeforeRetry(o, tk.attempt)
    THEN [tk EXCEPT !.pc = "sleeping", !.delay = Delay(tk.attempt)]
    ELSE IF ReturnsFallback(o, tk.attempt)
    THEN Returned(tk, FallbackAnswer, <<>>)
    ELSE IF tk.attempt + 1 < max_retries
    THEN [tk EXCEPT !.attempt = @ + 1]
    ELSE Returned(tk, LoopEndAnswer, <<>>)

ModelCallReturns(t, o) ==
    /\ tasks[t].pc = "calling"
    /\ tasks' = [tasks EXCEPT ![t] = AfterAttempt(@, o)]
    /\ user_contexts' =
          ContextAfterAttempt(user_contexts, tasks[t].user_id, tasks[t].user_message, o)
    /\ turns_ok' = IF IsReply(o)
                   THEN [turns_ok EXCEPT ![tasks[t].user_id] = @ + 1]
                   ELSE turns_ok
    /\ UNCHANGED <<knowledge_base, next_msg>>

\* asyncio.sleep(delay) is over; "continue" starts the next attempt (delay is
\* assigned again before it is next read, so it is dropped here).
BackoffElapsed(t) ==
    /\ tasks[t].pc = "sleeping"
    /\ tasks' = [tasks EXCEPT ![t] =
          IF @.attempt + 1 < max_retries
          THEN [@ EXCEPT !.pc = "calling", !.attempt = @ + 1, !.delay = 0]
          ELSE Returned(@, LoopEndAnswer, <<>>)]
    /\ UNCHANGED <<user_contexts, knowledge_base, turns_ok, next_msg>>

\* cmd_start calls clear_user_context(user.id).
ClearUserContext(uid) ==
    /\ user_contexts' = ClearedContexts(user_contexts, uid)
    /\ turns_ok' = [turns_ok EXCEPT ![uid] = 0]
    /\ UNCHANGED <<knowledge_base, next_msg, tasks>>

\* Where coroutines run concurrently, the turns under way at the same time
\* carry different texts: coroutine t handles text t.
MessagesOf(t) == {t}

\* Coroutines of several users on the one event loop.
Next ==
    \/ \E t \in Tasks : GetResponse(t, FewProductInputs, MessagesOf(t)) /\ UNCHANGED <<kb_file, last_search, reset_at, sent_by, mg_category, trace, catalog, search, turn>>
    \/ \E t \in Tasks : PromptBuilt(t, FewCategoryOutcomes) /\ UNCHANGED <<kb_file, last_search, reset_at, sent_by, mg_category, trace, catalog, search, turn>>
    \/ \E t \in Tasks, o \in ModelOutcomes : ModelCallReturns(t, o) /\ UNCHANGED <<kb_file, last_search, reset_at, sent_by, mg_category, trace, catalog, search, turn>>
    \/ \E t \in Tasks : BackoffElapsed(t) /\ UNCHANGED <<kb_file, last_search, reset_at, sent_by, mg_category, trace, catalog, search, turn>>
    \/ \E uid \in Users : ClearUserContext(uid) /\ UNCHANGED <<kb_file, last_search, reset_at, sent_by, mg_category, trace, catalog, search, turn>>

Spec == Init /\ [][Next]_vars

\* One coroutine at a time, every message a new text, and a log of the model
\* calls and sleeps of the invocation under way.
Observed == 1

LogAttempt(o) ==
    [outcomes |-> Append(trace.outcomes, o),
     sleeps |-> IF tasks'[Observed].pc = "sleeping"
                THEN Append(trace.sleeps, tasks'[Observed].delay)
                ELSE trace.sleeps]

NextSequential ==
    \/ GetResponse(Observed, ProductInputs, {next_msg + 1}) /\ trace' = NoTrace
          /\ UNCHANGED <<kb_file, last_search, reset_at, sent_by, mg_category, catalog, search, turn>>
    \/ PromptBuilt(Observed, CategoryOutcomes) /\ UNCHANGED <<kb_file, last_search, reset_at, sent_by, mg_category, trace, catalog, search, turn>>
    \/ \E o \in ModelOutcomes : ModelCallReturns(Observed, o) /\ trace' = LogAttempt(o)
          /\ UNCHANGED <<kb_file, last_search, reset_at, sent_by, mg_category, catalog, search, turn>>
    \/ BackoffElapsed(Observed) /\ UNCHANGED <<kb_file, last_search, reset_at, sent_by, mg_category, trace, catalog, search, turn>>
    \/ \E uid \in Users : ClearUserContext(uid) /\ UNCHANGED <<kb_file, last_search, reset_at, sent_by, mg_category, trace, catalog, search, turn>>

SpecSequential == Init /\ [][NextSequential]_vars

\* /start from user uid: cmd_start clears the context (start.py line 34);
\* the number of messages sent so far is remembered.
CmdStart(uid) ==
    /\ ClearUserContext(uid)
    /\ reset_at' = [reset_at EXCEPT ![uid] = next_msg]

\* The turns of one coroutine and the /start commands that arrive meanwhile.
NextReset ==
    \/ GetResponse(Observed, FewProductInputs, {next_msg + 1})
          /\ UNCHANGED <<kb_file, last_search, reset_at, sent_by, mg_category, trace, catalog, search, turn>>
    \/ PromptBuilt(Observed, FewCategoryOutcomes)
          /\ UNCHANGED <<kb_file, last_search, reset_at, sent_by, mg_category, trace, catalog, search, turn>>
    \/ \E o \in ModelOutcomes : ModelCallReturns(Observed, o)
          /\ UNCHANGED <<kb_file, last_search, reset_at, sent_by, mg_category, trace, catalog, search, turn>>
    \/ BackoffElapsed(Observed)
          /\ UNCHANGED <<kb_file, last_search, reset_at, sent_by, mg_category, trace, catalog, search, turn>>
    \/ \E uid \in Users : CmdStart(uid)
          /\ UNCHANGED <<kb_file, last_search, sent_by, mg_category, trace, catalog, search, turn>>

SpecReset == Init /\ [][NextReset]_vars

\* ------------------------------------------------------------ the senders
\* A Telegram user has an integer id (message.from_user.id); an Instagram
\* sender has the string the webhook gave (main.py lines 60, 80, 99).
Telegram(id) == [channel |-> "telegram", num |-> id, str |-> <<>>]
Instagram(sender_id) == [channel |-> "instagram", num |-> 0, str |-> sender_id]

Digits == {"0", "1"}
DigitVal(c) == IF c = "1" THEN 1 ELSE 0

\* str.isdigit(): not empty and every character a digit.
IsDigit(sender_id) ==
    /\ sender_id # <<>>
    /\ \A i \in 1..Len(sender_id) : sender_id[i] \in Digits

\* int(sender_id) of a string of digits.
RECURSIVE ToInt(_)
ToInt(sender_id) ==
    IF sender_id = <<>>
    THEN 0
    ELSE 10 * ToInt(SubSeq(sender_id, 1, Len(sender_id) - 1))
           + DigitVal(sender_id[Len(sender_id)])

\* The user_id the handlers pass to get_response: ai_chat.py lines 30 and 44;
\* int(sender_id) if sender_id.isdigit() else 0 in handle_message (line 52)
\* and handle_comment (line 93).
ContextKey(sender) ==
    IF sender.channel = "telegram"
    THEN sender.num
    ELSE IF IsDigit(sender.str) THEN ToInt(sender.str) ELSE 0

Senders ==
    {Telegram(1), Instagram(<<"1">>), Instagram(<<"a">>), Instagram(<<"b", "1">>)}

ContextKeys == {ContextKey(sender) : sender \in Senders}

\* A handler calls get_response for a message of the sender.
SenderGetResponse(sender) ==
    /\ GetResponseFor(Observed, {ContextKey(sender)}, FewProductInputs, {next_msg + 1})
    /\ sent_by' = Append(sent_by, sender)

InitSenders ==
    /\ user_contexts = << >>
    /\ kb_file = "absent"
    /\ last_search = NoSearch
    /\ reset_at = [u \in ContextKeys |-> 0]
    /\ sent_by = <<>>
    /\ mg_category = <<>>
    /\ knowledge_base = LoadKnowledgeBase(kb_file)
    /\ turns_ok = [u \in ContextKeys |-> 0]
    /\ next_msg = 0
    /\ tasks = [t \in Tasks |-> IdleTask]
    /\ trace = NoTrace
    /\ catalog = <<>>
    /\ search = IdleSearch
    /\ turn = IdleTurn

\* The turns of one coroutine, each for a message of some sender.
NextSenders ==
    \/ \E sender \in Senders : SenderGetResponse(sender)
          /\ UNCHANGED <<kb_file, last_search, reset_at, mg_category, trace, catalog, search, turn>>
    \/ PromptBuilt(Observed, FewCategoryOutcomes)
          /\ UNCHANGED <<kb_file, last_search, reset_at, sent_by, mg_category, trace, catalog, search, turn>>
    \/ \E o \in ModelOutcomes : ModelCallReturns(Observed, o)
          /\ UNCHANGED <<kb_file, last_search, reset_at, sent_by, mg_category, trace, catalog, search, turn>>
    \/ BackoffElapsed(Observed)
          /\ UNCHANGED <<kb_file, last_search, reset_at, sent_by, mg_category, trace, catalog, search, turn>>

SpecSenders == InitSenders /\ [][NextSenders]_vars

\* ---------------------------------------------------- the category provider
InitCategories ==
    /\ user_contexts = << >>
    /\ kb_file = "absent"
    /\ last_search = NoSearch
    /\ reset_at = [u \in Users |-> 0]
    /\ sent_by = <<>>
    /\ mg_category \in CategoryTables
    /\ knowledge_base = LoadKnowledgeBase(kb_file)
    /\ turns_ok = [u \in Users |-> 0]
    /\ next_msg = 0
    /\ tasks = [t \in Tasks |-> IdleTask]
    /\ trace = NoTrace
    /\ catalog = <<>>
    /\ search = IdleSearch
    /\ turn = IdleTurn

\* The turns of one coroutine over a catalog with some visible categories.
NextCategories ==
    \/ GetResponse(Observed, ProductInputs, {next_msg + 1})
          /\ UNCHANGED <<kb_file, last_search, reset_at, sent_by, mg_category, trace, catalog, search, turn>>
    \/ PromptBuilt(Observed, {GetAllCategoryNames(DatabaseService, mg_category)})
          /\ UNCHANGED <<kb_file, last_search, reset_at, sent_by, mg_category, trace, catalog, search, turn>>
    \/ \E o \in ModelOutcomes : ModelCallReturns(Observed, o)
          /\ UNCHANGED <<kb_file, last_search, reset_at, sent_by, mg_category, trace, catalog, search, turn>>
    \/ BackoffElapsed(Observed)
          /\ UNCHANGED <<kb_file, last_search, reset_at, sent_by, mg_category, trace, catalog, search, turn>>

SpecCategories == InitCategories /\ [][NextCategories]_vars

\* ai_search is called; extract_search_params issues its model call and
\* awaits it (product_service.py line 114, ai_service.py line 179).
AiSearch ==
    /\ search.pc \in {"idle", "done", "raised", "extract_raised"}
    /\ \E m \in SearchMessages :
         search' = [IdleSearch EXCEPT !.pc = "extracting", !.user_message = m,
                                      !.extract_calls = 1]
    /\ UNCHANGED catalog

\* The model call of the extraction comes back: lines 184-219, then lines
\* 116-130 of ai_search up to the first lookup (user_message is not read
\* again and is dropped).
ExtractReturns ==
    /\ search.pc = "extracting"
    /\ \E o \in ExtractOutcomes :
       \E parsed \in IF ErrorOf[o] = "none" THEN ParsedParams ELSE {search.params} :
         LET e == ErrorOf[o]
             params == IF e = "none" THEN parsed ELSE FallbackParams(search.user_message)
             returned == [IdleSearch EXCEPT !.extract_calls = search.extract_calls,
                                            !.extract_error = e, !.params = params]
         IN search' =
              IF e # "none" /\ ~Caught(e)
              THEN [IdleSearch EXCEPT !.pc = "extract_raised",
                                      !.extract_calls = search.extract_calls,
                                      !.extract_error = e]
              ELSE IF ~IsProductSearch(params)
              THEN [returned EXCEPT !.pc = "done", !.result = <<>>,
                                    !.is_product_search = FALSE]
              ELSE [returned EXCEPT !.pc = "lookup1"]
    /\ UNCHANGED catalog

\* The first search_products call returns (lines 125-139), or the database
\* raises and ai_search lets the exception through.
FirstLookupReturns ==
    /\ search.pc = "lookup1"
    /\ \/ \E ordered \in ResultOrders(catalog) :
          LET params == search.params
              products == SearchProducts(ordered, params.search_query, params.min_price,
                                         params.max_price, SearchLimit)
              looked == Append(search.lookups, Lookup(params.search_query, params, products))
          IN search' =
               IF SearchesAgain(params)
               THEN [search EXCEPT !.pc = "lookup2", !.products = products,
                                   !.lookups = looked]
               ELSE [search EXCEPT !.pc = "done", !.products = products,
                                   !.lookups = looked, !.result = products,
                                   !.is_product_search = TRUE]
       \/ search' = [IdleSearch EXCEPT !.pc = "raised"]
    /\ UNCHANGED catalog

\* The second search_products call returns and the results are merged
\* (lines 134-147), or the database raises.
SecondLookupReturns ==
    /\ search.pc = "lookup2"
    /\ \/ \E ordered \in ResultOrders(catalog) :
          LET params == search.params
              more_products == SearchProducts(ordered, params.translated_keywords,
                                              params.min_price, params.max_price, SearchLimit)
          IN search' =
               [search EXCEPT
                  !.pc = "done",
                  !.lookups = Append(@, Lookup(params.translated_keywords, params, more_products)),
                  !.products = Merge(search.products, more_products),
                  !.result = Merge(search.products, more_products),
                  !.is_product_search = TRUE]
       \/ search' = [IdleSearch EXCEPT !.pc = "raised"]
    /\ UNCHANGED catalog

InitSearch ==
    /\ user_contexts = << >>
    /\ kb_file = "absent"
    /\ last_search = NoSearch
    /\ reset_at = [u \in Users |-> 0]
    /\ sent_by = <<>>
    /\ mg_category = <<>>
    /\ knowledge_base = LoadKnowledgeBase(kb_file)
    /\ turns_ok = [u \in Users |-> 0]
    /\ next_msg = 0
    /\ tasks = [t \in Tasks |-> IdleTask]
    /\ trace = NoTrace
    /\ catalog \in Catalogs
    /\ search = IdleSearch
    /\ turn = IdleTurn

NextSearch ==
    \/ AiSearch /\ UNCHANGED <<composer_vars, turn>>
    \/ ExtractReturns /\ UNCHANGED <<composer_vars, turn>>
    \/ FirstLookupReturns /\ UNCHANGED <<composer_vars, turn>>
    \/ SecondLookupReturns /\ UNCHANGED <<composer_vars, turn>>

SpecSearch == InitSearch /\ [][NextSearch]_vars

\* ai_search is called again: what the product search before it took as
\* intent and returned is remembered.
AiSearchAgain ==
    /\ AiSearch
    /\ last_search' = IF search.pc = "done" /\ search.is_product_search
                      THEN [params |-> search.params, result |-> search.result]
                      ELSE last_search

\* The catalogs of the repeated searches: every row matches "tv", the rows
\* of the set also "televizor".
RepeatCatalogs ==
    {[i \in 1..CatalogSize |->
         CatalogRow(i, IF i \in both THEN {"tv", "televizor"} ELSE {"tv"})] :
       both \in SUBSET {1, 2, CatalogSize}}

InitRepeat ==
    /\ user_contexts = << >>
    /\ kb_file = "absent"
    /\ last_search = NoSearch
    /\ reset_at = [u \in Users |-> 0]
    /\ sent_by = <<>>
    /\ mg_category = <<>>
    /\ knowledge_base = LoadKnowledgeBase(kb_file)
    /\ turns_ok = [u \in Users |-> 0]
    /\ next_msg = 0
    /\ tasks = [t \in Tasks |-> IdleTask]
    /\ trace = NoTrace
    /\ catalog \in RepeatCatalogs
    /\ search = IdleSearch
    /\ turn = IdleTurn

other_vars ==
    <<user_contexts, knowledge_base, turns_ok, next_msg, tasks, trace, kb_file, turn, reset_at,
      sent_by, mg_category>>

\* ai_search called time after time against an unchanged catalog.
NextRepeat ==
    \/ AiSearchAgain /\ UNCHANGED other_vars
    \/ ExtractReturns /\ UNCHANGED <<other_vars, last_search>>
    \/ FirstLookupReturns /\ UNCHANGED <<other_vars, last_search>>
    \/ SecondLookupReturns /\ UNCHANGED <<other_vars, last_search>>

SpecRepeat == InitRepeat /\ [][NextRepeat]_vars

\* ------------------------------------------------------ handle_text_message
\* The external calls of a turn, in the order of their issue and return.
Call(stage) == [stage |-> stage, ev |-> "call"]
Return(stage) == [stage |-> stage, ev |-> "return"]

\* The call a step of ai_search answers, then the lookup it issues, if any.
SearchLogged(calls, before, after) ==
    LET returned == Append(calls, Return(IF before.pc = "extracting" THEN "extract" ELSE "lookup"))
    IN IF after.pc \in {"lookup1", "lookup2"} THEN Append(returned, Call("lookup")) ELSE returned

\* The return of a model call of get_response, then the call of the next
\* attempt, if it is issued in the same step.
RespondLogged(calls, returns, after) ==
    LET returned == IF returns THEN Append(calls, Return("respond")) ELSE calls
    IN IF after.pc = "calling" THEN Append(returned, Call("respond")) ELSE returned

\* Lines 73-79: the except branch of the handler.
Apologised(calls) == [IdleTurn EXCEPT !.pc = "sent", !.calls = calls, !.sent = HandlerApology]

\* Lines 50-72: the answer, with products[:3] listed and products[:5] on the
\* keyboard when the search was a product search that found something.
Rendered(ai_response, products, is_product_search) ==
    IF is_product_search /\ products # <<>>
    THEN Message(ai_response, FirstN(products, 3), FirstN(products, 5))
    ELSE Message(ai_response, <<>>, <<>>)

\* products_context=products if is_product_search else None
HandlerArg(products, is_product_search) ==
    IF is_product_search THEN ProductList(products) ELSE NoProducts

\* Mutant: get_response is called while the second lookup is under way.
RespondStartsEarly(search_pc) == search_pc \in {"done", "lookup2"}

\* Line 40: the await of ai_search ends when ai_search has returned.
RespondStarts(search_pc) == search_pc = "done"

\* A text message arrives: lines 18-40 and ai_search up to the await of the
\* extraction's model call.
HandleTextMessage ==
    /\ turn.pc \in {"idle", "sent"}
    /\ next_msg < MaxTurns
    /\ AiSearch
    /\ tasks' = [tasks EXCEPT ![Observed] = IdleTask]
    /\ turn' = [IdleTurn EXCEPT !.pc = "searching", !.calls = <<Call("extract")>>]
    /\ UNCHANGED <<user_contexts, knowledge_base, kb_file, last_search, reset_at, sent_by, mg_category, turns_ok, next_msg, trace>>

\* A step of ai_search inside the turn; an exception it lets through is
\* caught by the handler (line 73).
InTurn(SearchStep) ==
    /\ turn.pc = "searching"
    /\ SearchStep
    /\ turn' = IF search'.pc \in {"raised", "extract_raised"}
               THEN Apologised(SearchLogged(turn.calls, search, search'))
               ELSE [turn EXCEPT !.calls = SearchLogged(@, search, search')]
    /\ UNCHANGED composer_vars

\* ai_search has returned: lines 40-47 and get_response up to the await of
\* the category names.
TurnRespond ==
    /\ turn.pc = "searching"
    /\ RespondStarts(search.pc)
    /\ GetResponse(Observed, {HandlerArg(search.result, search.is_product_search)},
                   {next_msg + 1})
    /\ search' = IdleSearch
    /\ turn' = IF tasks'[Observed].pc = "raised"
               THEN Apologised(turn.calls)
               ELSE [turn EXCEPT !.pc = "responding",
                                 !.products = search.result,
                                 !.is_product_search = search.is_product_search,
                                 !.calls = Append(@, Call("categories"))]
    /\ UNCHANGED <<kb_file, last_search, reset_at, sent_by, mg_category, trace, catalog>>

TurnPromptBuilt ==
    /\ turn.pc = "responding"
    /\ PromptBuilt(Observed, FewCategoryOutcomes)
    /\ turn' = [turn EXCEPT !.calls = Append(Append(@, Return("categories")), Call("respond"))]
    /\ UNCHANGED <<kb_file, last_search, reset_at, sent_by, mg_category, trace, catalog, search>>

TurnModelCallReturns ==
    /\ turn.pc = "responding"
    /\ \E o \in ModelOutcomes : ModelCallReturns(Observed, o)
    /\ turn' = [turn EXCEPT !.calls = RespondLogged(@, TRUE, tasks'[Observed])]
    /\ UNCHANGED <<kb_file, last_search, reset_at, sent_by, mg_category, trace, catalog, search>>

TurnBackoffElapsed ==
    /\ turn.pc = "responding"
    /\ BackoffElapsed(Observed)
    /\ turn' = [turn EXCEPT !.calls = RespondLogged(@, FALSE, tasks'[Observed])]
    /\ UNCHANGED <<kb_file, last_search, reset_at, sent_by, mg_category, trace, catalog, search>>

\* get_response has returned: lines 49-72.
TurnSend ==
    /\ turn.pc = "responding"
    /\ tasks[Observed].pc = "done"
    /\ turn' = [IdleTurn EXCEPT
                  !.pc = "sent", !.calls = turn.calls,
                  !.sent = Rendered(tasks[Observed].answer, turn.products,
                                    turn.is_product_search)]
    /\ tasks' = [tasks EXCEPT ![Observed] = IdleTask]
    /\ UNCHANGED <<user_contexts, knowledge_base, kb_file, last_search, reset_at, sent_by, mg_category, turns_ok, next_msg, trace,
                   catalog, search>>

\* The catalog of the turns: rows matching "tv", every second one also
\* "televizor".
TurnCatalog ==
    [i \in 1..CatalogSize |->
        CatalogRow(i, IF i % 2 = 1 THEN {"tv"} ELSE {"tv", "televizor"})]

InitTurn ==
    /\ user_contexts = << >>
    /\ kb_file = "absent"
    /\ last_search = NoSearch
    /\ reset_at = [u \in Users |-> 0]
    /\ sent_by = <<>>
    /\ mg_category = <<>>
    /\ knowledge_base = LoadKnowledgeBase(kb_file)
    /\ turns_ok = [u \in Users |-> 0]
    /\ next_msg = 0
    /\ tasks = [t \in Tasks |-> IdleTask]
    /\ trace = NoTrace
    /\ catalog = TurnCatalog
    /\ search = IdleSearch
    /\ turn = IdleTurn

\* The admin panel (admin/app.py, a process of its own) saves the knowledge
\* base: save_knowledge_base writes data/knowledge_base.json.
AdminSave(data) ==
    /\ kb_file' = data
    /\ UNCHANGED <<user_contexts, knowledge_base, turns_ok, next_msg, tasks, trace,
                   catalog, search, turn, last_search, reset_at, sent_by,
                   mg_category>>

\* Whole turns of handle_text_message, one after the other, and the admin
\* panel beside them.
NextTurn ==
    \/ \E data \in KBUpdates : AdminSave(data)
    \/ HandleTextMessage
    \/ InTurn(ExtractReturns)
    \/ InTurn(FirstLookupReturns)
    \/ InTurn(SecondLookupReturns)
    \/ TurnRespond
    \/ TurnPromptBuilt
    \/ TurnModelCallReturns
    \/ TurnBackoffElapsed
    \/ TurnSend

SpecTurn == InitTurn /\ [][NextTurn]_vars

\* ------------------------------------------------------------------ claims
IsModelAnswer(tk) == tk.pc = "done" /\ tk.answer.turn # 0
InFlight(tk) == tk.pc \in {"build_prompt", "calling", "sleeping"}

AllRateLimited ==
    /\ Len(trace.outcomes) > 0
    /\ \A i \in 1..Len(trace.outcomes) : trace.outcomes[i] = "rate_limit"

\* C1: when every model call of an invocation fails with a rate-limit error,
\* get_response makes exactly 4 calls, sleeps 3, 6 and 12 seconds between
\* them, does not sleep after the 4th failure and returns the fallback text.
C1_RetryBound ==
    AllRateLimited =>
        /\ Len(trace.outcomes) <= 4
        /\ Len(trace.sleeps) <= 3
        /\ \A i \in 1..Len(trace.sleeps) : trace.sleeps[i] = 3 * (2 ^ (i - 1))
        /\ Len(trace.outcomes) = 4 =>
              /\ tasks[Observed].pc = "done"
              /\ trace.sleeps = <<3, 6, 12>>
              /\ tasks[Observed].answer = FallbackAnswer
              /\ tasks[Observed].products = <<>>
        /\ tasks[Observed].pc = "done" => Len(trace.outcomes) = 4

C1_Witness ==
    /\ AllRateLimited
    /\ tasks[Observed].pc = "done"
    /\ trace.sleeps = <<3, 6, 12>>

\* C2: a model call that fails with an error of another class is the last call
\* of the invocation, which returns the apology and an empty product list.
C2_OtherErrorNotRetried ==
    \A i \in 1..Len(trace.outcomes) :
        trace.outcomes[i] = "error" =>
            /\ i = Len(trace.outcomes)
            /\ tasks[Observed].pc = "done"
            /\ tasks[Observed].answer = FallbackAnswer
            /\ tasks[Observed].products = <<>>

\* C3: get_response never raises to its caller, whatever the product records
\* hold and whatever the model and the category provider do.
C3_NeverRaises == \A t \in Tasks : tasks[t].pc # "raised"

\* C4: the contexts change only in the step in which a model call succeeded
\* (or in a clear); failed attempts and fallbacks leave every history as it was.
RecordStep(t) ==
    /\ tasks[t].pc = "calling"
    /\ IsModelAnswer(tasks'[t])

C4_OnlySuccessWrites ==
    [][user_contexts' # user_contexts =>
          \/ \E t \in Tasks : RecordStep(t)
          \/ \E uid \in Users : ClearUserContext(uid)]_vars

C4_Witness ==
    \E t \in Tasks :
        /\ tasks[t].pc = "done"
        /\ tasks[t].answer = FallbackAnswer
        /\ ContextGet(user_contexts, tasks[t].user_id) # <<>>

\* C5: in every state a stored history is a list of pairs: an utterance with
\* role user, directly followed by the answer to that utterance.
PairedHistory(h) ==
    /\ Len(h) % 2 = 0
    /\ \A i \in 1..Len(h) :
          i % 2 = 1 =>
             /\ h[i].role = "user"
             /\ h[i + 1].role = "model"
             /\ h[i + 1].text.turn = h[i].text.turn

C5_TurnsRecordedWhole ==
    \A u \in DOMAIN user_contexts : PairedHistory(user_contexts[u])

C5_Witness ==
    \E t1 \in Tasks, t2 \in Tasks :
        /\ t1 # t2
        /\ tasks[t1].user_id = tasks[t2].user_id
        /\ IsModelAnswer(tasks[t1])
        /\ tasks[t2].pc = "sleeping"
        /\ Len(ContextGet(user_contexts, tasks[t1].user_id)) >= 4

\* C6: in every state every stored history holds at most 10 turns.
C6_ContextBound ==
    \A u \in DOMAIN user_contexts : Len(user_contexts[u]) <= 10

C6_Witness ==
    \E u \in Users :
        /\ turns_ok[u] >= 6
        /\ Len(ContextGet(user_contexts, u)) = 10

\* C7: a step of a turn of user A, and a clear for A, leave the history of
\* every other user as it was.
OthersUntouched(A) ==
    \A B \in Users \ {A} :
        /\ (B \in DOMAIN user_contexts') = (B \in DOMAIN user_contexts)
        /\ ContextGet(user_contexts', B) = ContextGet(user_contexts, B)

TurnStep(t, A) ==
    /\ InFlight(tasks[t])
    /\ tasks[t].user_id = A
    /\ tasks'[t] # tasks[t]

C7_UsersIndependent ==
    [][\A A \in Users :
          (ClearUserContext(A) \/ \E t \in Tasks : TurnStep(t, A)) => OthersUntouched(A)]_vars

C7_Witness ==
    \E t \in Tasks, B \in Users :
        /\ IsModelAnswer(tasks[t])
        /\ B # tasks[t].user_id
        /\ ContextGet(user_contexts, tasks[t].user_id) # <<>>
        /\ ContextGet(user_contexts, B) # <<>>

NotProductSearch == search.params.is_product_search \in {"false", "absent"}

\* C8: when the extracted intent is not a product query (is_product_search
\* false or missing), ai_search makes no catalog lookup and returns an empty
\* list with the flag false.
C8_NoLookupWhenNotProductQuery ==
    NotProductSearch =>
        /\ search.lookups = <<>>
        /\ search.pc \notin {"lookup1", "lookup2"}
        /\ search.pc = "done" => search.result = <<>> /\ ~search.is_product_search

C8_Witness ==
    /\ search.pc = "done"
    /\ search.params.is_product_search = "false"
    /\ SearchProducts(catalog, search.params.search_query, search.params.min_price,
                      search.params.max_price, SearchLimit) # <<>>

ProductQueryDone == search.pc = "done" /\ search.is_product_search

NewInSecond(P, S) == {k \in 1..Len(S) : S[k].id \notin Ids(P)}

\* C9: the sequence ai_search returns for a product query is what the first
\* lookup returned, in that order, followed by exactly those results of the
\* second lookup whose id the first did not return, in the order returned.
C9_MergeOrder ==
    ProductQueryDone =>
        LET P == search.lookups[1].returned
            R == search.result
        IN /\ Len(R) >= Len(P)
           /\ SubSeq(R, 1, Len(P)) = P
           /\ Len(search.lookups) = 1 => R = P
           /\ Len(search.lookups) = 2 =>
                 LET S == search.lookups[2].returned
                     T == SubSeq(R, Len(P) + 1, Len(R))
                 IN /\ Len(T) = Cardinality(NewInSecond(P, S))
                    /\ \A j \in 1..Len(T) : \E k \in NewInSecond(P, S) : S[k] = T[j]
                    /\ \A j1 \in 1..Len(T), j2 \in 1..Len(T) :
                          j1 < j2 =>
                             \E k1 \in 1..Len(S), k2 \in 1..Len(S) :
                                 k1 < k2 /\ S[k1] = T[j1] /\ S[k2] = T[j2]

C9_Witness ==
    /\ ProductQueryDone
    /\ Len(search.lookups) = 2
    /\ search.lookups[1].returned # <<>>
    /\ Cardinality(NewInSecond(search.lookups[1].returned, search.lookups[2].returned)) >= 2
    /\ Cardinality(NewInSecond(search.lookups[1].returned, search.lookups[2].returned))
          < Len(search.lookups[2].returned)

LookedUpIds == UNION {Ids(search.lookups[k].returned) : k \in 1..Len(search.lookups)}

\* C10: the returned sequence never holds two entries with the same id, also
\* when both lookups return the same records; when the lookups return one
\* record in all, the result is that record alone.
C10_NoDuplicateIds ==
    ProductQueryDone =>
        LET R == search.result
        IN /\ \A i \in 1..Len(R), j \in 1..Len(R) : R[i].id = R[j].id => i = j
           /\ Ids(R) = LookedUpIds
           /\ Cardinality(LookedUpIds) = 1 => Len(R) = 1

C10_Witness ==
    /\ ProductQueryDone
    /\ Len(search.lookups) = 2
    /\ Len(search.lookups[1].returned) = 1
    /\ search.lookups[2].returned = search.lookups[1].returned

\* The secondary keyword is present and differs from the primary ignoring
\* case; a null or empty primary differs from every present secondary.
DiffersIgnoringCase(tr, q) ==
    /\ TruthyStr(tr)
    /\ ~TruthyStr(q) \/ Lower(tr) # Lower(q)

\* C11: for a product query, a secondary keyword that is present and differs
\* from the primary ignoring case (a null or empty primary included) gives a
\* second lookup with the secondary keyword, the same price filters and limit
\* 5; otherwise exactly one lookup is made.
C11_SecondLookupWhenKeywordsDiffer ==
    ProductQueryDone =>
        LET p == search.params
        IN IF DiffersIgnoringCase(p.translated_keywords, p.search_query)
           THEN /\ Len(search.lookups) = 2
                /\ search.lookups[2].query = p.translated_keywords
                /\ search.lookups[2].min_price = search.lookups[1].min_price
                /\ search.lookups[2].max_price = search.lookups[1].max_price
                /\ search.lookups[2].limit = 5
           ELSE Len(search.lookups) = 1

ExtractionFailed == search.extract_error # "none"

\* C12: when extraction fails, the intent returned for an utterance of at
\* most 3 words has is_product_search true and the utterance as search_query;
\* for an utterance of more than 3 words it has is_product_search false.
C12_FallbackIntent ==
    [][(search.pc = "extracting" /\ search'.pc # "extracting" /\ ExtractionFailed') =>
          IF Len(search.user_message.words) <= 3
          THEN /\ search'.params.is_product_search = "true"
               /\ search'.params.search_query = search.user_message
          ELSE search'.params.is_product_search = "false"]_vars

C12_Witness ==
    /\ ExtractionFailed
    /\ search.extract_error = "JSONDecodeError"
    /\ search.pc = "lookup1"
    /\ Len(search.params.search_query.words) = 3

\* C13: extract_search_params never lets an exception through: whatever its
\* model call gives, it has returned an intent after exactly one call.
C13_ExtractNeverRaises ==
    /\ search.pc # "extract_raised"
    /\ search.extract_calls <= 1
    /\ search.pc \in {"lookup1", "lookup2", "done"} =>
          /\ search.extract_calls = 1
          /\ search.params.is_product_search \in {"true", "false", "absent"}
          /\ ExtractionFailed => search.params.is_product_search \in {"true", "false"}

C13_Witness ==
    /\ search.pc = "done"
    /\ search.extract_error = "AttributeError"
    /\ search.extract_calls = 1
    /\ ~search.is_product_search

\* C14: a catalog lookup that fails during ai_search is taken as "no
\* products": ai_search raises nothing, the turn goes on to get_response and
\* the user gets its answer.
C14_LookupFailureIsNoProducts ==
    /\ search.pc # "raised"
    /\ turn.sent # HandlerApology

StageOf(stage) ==
    IF stage = "extract" THEN 1 ELSE IF stage = "lookup" THEN 2 ELSE 3

\* C15: in a turn the external calls are issued in the order extraction,
\* lookups, get_response (its category query and model calls), the first
\* being the one extraction call, and each call is issued only after the call
\* before it has returned.
C15_StagesInSequence ==
    LET c == turn.calls
    IN /\ c # <<>> => c[1] = Call("extract")
       /\ \A i \in 1..Len(c) :
             /\ c[i].ev = (IF i % 2 = 1 THEN "call" ELSE "return")
             /\ c[i].ev = "return" => c[i].stage = c[i - 1].stage
             /\ c[i].stage = "extract" => i <= 2
       /\ \A i \in 1..Len(c), j \in 1..Len(c) :
             i < j => StageOf(c[i].stage) <= StageOf(c[j].stage)

C15_Witness ==
    /\ turn.pc = "sent"
    /\ turn.sent.listed # <<>>
    /\ Cardinality({i \in 1..Len(turn.calls) : turn.calls[i] = Call("lookup")}) = 2
    /\ Cardinality({i \in 1..Len(turn.calls) : turn.calls[i] = Call("respond")}) = 4

\* C16: the step in which the model call succeeds appends two turns to the
\* caller's history, the utterance with role user and then the answer with
\* role model, and returns that answer with the product list it was given,
\* same elements in the same order.
C16_SuccessRecordsAndReturns ==
    [][RecordStep(Observed) =>
          LET tk == tasks[Observed]
              h == ContextGet(user_contexts, tk.user_id)
              h2 == ContextGet(user_contexts', tk.user_id)
              n == Len(h2)
          IN /\ n >= 2
             /\ h2[n - 1] = Turn("user", tk.user_message)
             /\ h2[n] = Turn("model", tasks'[Observed].answer)
             /\ tasks'[Observed].answer.turn = tk.user_message.turn
             /\ SubSeq(h2, 1, n - 2) = LastN(h, n - 2)
             /\ Len(h) + 2 <= 10 => n = Len(h) + 2
             /\ tasks'[Observed].products = OrEmpty(tk.products_context)]_vars

C16_Witness ==
    /\ turn.pc = "responding"
    /\ IsModelAnswer(tasks[Observed])
    /\ Len(tasks[Observed].products) >= 2
    /\ tasks[Observed].products = turn.products
    /\ Len(ContextGet(user_contexts, tasks[Observed].user_id)) >= 4

\* The exchange of message k, as stored.
Exchange(k) == <<Turn("user", Text(k, "xabar")), Turn("model", Text(k, "javob"))>>

RECURSIVE Exchanges(_, _)
\* The exchanges of the messages from..to, oldest first.
Exchanges(from, to) ==
    IF from > to THEN <<>> ELSE Exchange(from) \o Exchanges(from + 1, to)

\* Every message so far was a turn of user u that succeeded, none was cleared.
OnlySuccessfulTurnsOf(u) ==
    /\ next_msg > 0
    /\ turns_ok[u] = next_msg
    /\ tasks[Observed].pc = "done"

\* C17: a successful turn leaves the last 10 entries of (previous history,
\* utterance, answer); so after n successful turns in a row of one user the
\* store holds the exchanges of the last 5 of them at most, and none of the
\* older utterances or answers.
C17_LastTenKept ==
    /\ [](\A u \in Users :
             OnlySuccessfulTurnsOf(u) =>
                LET h == ContextGet(user_contexts, u)
                IN /\ Len(h) <= 10
                   /\ h = Exchanges(IF next_msg > 5 THEN next_msg - 4 ELSE 1, next_msg)
                   /\ \A i \in 1..Len(h) : h[i].text.turn > next_msg - 5)
    /\ [][RecordStep(Observed) =>
             LET tk == tasks[Observed]
                 h == ContextGet(user_contexts, tk.user_id)
                 all == h \o <<Turn("user", tk.user_message),
                               Turn("model", tasks'[Observed].answer)>>
             IN ContextGet(user_contexts', tk.user_id) =
                   IF Len(all) <= 10 THEN all ELSE SubSeq(all, Len(all) - 9, Len(all))]_vars

C17_Witness ==
    \E u \in Users :
        /\ OnlySuccessfulTurnsOf(u)
        /\ next_msg >= 6
        /\ Len(ContextGet(user_contexts, u)) = 10
        /\ ContextGet(user_contexts, u)[1].text.turn = next_msg - 4

\* C18: the system prompt of a turn is built from the knowledge base as the
\* admin panel last saved it, without a restart of the bot.
C18_PromptUsesSavedKnowledgeBase ==
    [][\A t \in Tasks :
          (tasks[t].pc = "build_prompt" /\ tasks'[t].pc = "calling") =>
              tasks'[t].system_prompt.kb = LoadKnowledgeBase(kb_file)]_vars

PromptStep(t) == tasks[t].pc = "build_prompt" /\ tasks'[t].pc = "calling"

\* C19: clear_user_context(uid) removes the whole history of uid and nothing
\* else, and changes nothing when uid has none; the store then holds only
\* turns recorded after the clear, so the contents of a get_response that
\* reads the history after it hold no turn stored before it.
C19_ClearRemovesHistory ==
    /\ [](\A u \in Users : Len(ContextGet(user_contexts, u)) <= 2 * turns_ok[u])
    /\ [][\A uid \in Users :
             ClearUserContext(uid) =>
                /\ uid \notin DOMAIN user_contexts'
                /\ uid \notin DOMAIN user_contexts => user_contexts' = user_contexts
                /\ DOMAIN user_contexts' = DOMAIN user_contexts \ {uid}
                /\ \A B \in DOMAIN user_contexts' : user_contexts'[B] = user_contexts[B]]_vars
    /\ [][\A t \in Tasks :
             PromptStep(t) =>
                LET uid == tasks[t].user_id
                    c == tasks'[t].contents
                IN /\ c[Len(c)] = Turn("user", tasks[t].user_message)
                   /\ Len(c) <= 1 + 2 * turns_ok[uid]
                   /\ turns_ok[uid] = 0 => c = <<Turn("user", tasks[t].user_message)>>]_vars

C19_Witness ==
    \E t1 \in Tasks, t2 \in Tasks :
        /\ t1 # t2
        /\ IsModelAnswer(tasks[t2])
        /\ tasks[t1].user_id = tasks[t2].user_id
        /\ tasks[t1].pc = "calling"
        /\ tasks[t1].contents = <<Turn("user", tasks[t1].user_message)>>
        /\ tasks[t1].user_id \notin DOMAIN user_contexts
        /\ user_contexts # << >>

\* Coroutine t2 can take the next step of its turn.
CanGoOn(t2) ==
    /\ (tasks[t2].pc \in {"idle", "done", "raised"} /\ next_msg < MaxTurns) =>
          ENABLED GetResponse(t2, FewProductInputs, MessagesOf(t2))
    /\ tasks[t2].pc = "build_prompt" => ENABLED PromptBuilt(t2, FewCategoryOutcomes)
    /\ tasks[t2].pc = "calling" => \A o \in ModelOutcomes : ENABLED ModelCallReturns(t2, o)
    /\ tasks[t2].pc = "sleeping" => ENABLED BackoffElapsed(t2)

\* C20: while a coroutine sleeps in its backoff or waits for a model call,
\* every other coroutine can start a turn and take each step of it up to its
\* end, and these steps leave the waiting coroutine as it is; a sleeping
\* coroutine itself makes no model call before its sleep is over.
C20_SleepBlocksOnlyItsTurn ==
    /\ [](\A t1 \in Tasks :
             tasks[t1].pc \in {"sleeping", "calling"} =>
                /\ tasks[t1].pc = "sleeping" =>
                      \A o \in ModelOutcomes : ~ENABLED ModelCallReturns(t1, o)
                /\ \A t2 \in Tasks \ {t1} : CanGoOn(t2))
    /\ [][\A t1 \in Tasks, t2 \in Tasks :
             (t1 # t2 /\ tasks[t1].pc \in {"sleeping", "calling"} /\ tasks'[t2] # tasks[t2])
                => tasks'[t1] = tasks[t1]]_vars

C20_Witness ==
    \E t1 \in Tasks, t2 \in Tasks :
        /\ tasks[t1].pc = "sleeping"
        /\ tasks[t1].attempt = 0
        /\ IsModelAnswer(tasks[t2])
        /\ tasks[t2].user_id # tasks[t1].user_id
        /\ ContextGet(user_contexts, tasks[t2].user_id) # <<>>
        /\ ContextGet(user_contexts, tasks[t1].user_id) = <<>>
        /\ turns_ok[tasks[t2].user_id] = next_msg - 1

NoDuplicates(R) == \A i \in 1..Len(R), j \in 1..Len(R) : R[i].id = R[j].id => i = j

\* The secondary keyword is the primary keyword.
IdenticalKeywords(p) ==
    TruthyStr(p.translated_keywords) /\ p.translated_keywords = p.search_query

\* Intent p with the secondary keyword left out.
SecondaryOmitted(p) == [p EXCEPT !.translated_keywords = NoneS]

\* C21: a product search whose secondary keyword is identical to the primary
\* returns the sequence that the search with the same intent without the
\* secondary keyword returns, and no entry twice.
C21_IdenticalSecondaryChangesNothing ==
    (search.pc = "done" /\ search.is_product_search) =>
        /\ IdenticalKeywords(search.params) => NoDuplicates(search.result)
        /\ (/\ IdenticalKeywords(search.params)
            /\ last_search.params = SecondaryOmitted(search.params)) =>
               search.result = last_search.result
        /\ (/\ IdenticalKeywords(last_search.params)
            /\ last_search.params.is_product_search = "true"
            /\ search.params = SecondaryOmitted(last_search.params)) =>
               search.result = last_search.result

C21_Witness ==
    /\ search.pc = "done"
    /\ search.is_product_search
    /\ IdenticalKeywords(search.params)
    /\ last_search.params = SecondaryOmitted(search.params)
    /\ Len(search.result) = 5
    /\ Len(last_search.result) = 5

\* C22: two product searches with the same intent against the unchanged
\* catalog return the same sequence, the same ids at the same positions.
C22_SameIntentSameOrder ==
    (/\ search.pc = "done"
     /\ search.is_product_search
     /\ last_search.params = search.params) =>
        /\ Len(search.result) = Len(last_search.result)
        /\ \A i \in 1..Len(search.result) : search.result[i].id = last_search.result[i].id
        /\ search.result = last_search.result

C22_Witness ==
    /\ search.pc = "done"
    /\ search.is_product_search
    /\ last_search.params = search.params
    /\ Len(search.lookups) = 2
    /\ Len(search.result) > 5

\* C23: the history in the contents of a model call is the last 5 stored
\* turns of the caller (all of them when fewer are stored), in stored order,
\* and none of them is a turn of another user.
C23_HistoryWindow ==
    [][\A t \in Tasks :
          PromptStep(t) =>
             LET uid == tasks[t].user_id
                 store == ContextGet(user_contexts, uid)
                 c == tasks'[t].contents
                 n == Len(c) - 1
             IN /\ n <= 5
                /\ n = (IF Len(store) < 5 THEN Len(store) ELSE 5)
                /\ \A i \in 1..n : c[i] = store[Len(store) - n + i]
                /\ \A i \in 1..n : \A B \in Users \ {uid} :
                      \A k \in 1..Len(ContextGet(user_contexts, B)) :
                          ContextGet(user_contexts, B)[k].text.turn # c[i].text.turn]_vars

C23_Witness ==
    \E B \in Users :
        /\ tasks[Observed].pc = "calling"
        /\ B # tasks[Observed].user_id
        /\ Len(ContextGet(user_contexts, tasks[Observed].user_id)) >= 8
        /\ ContextGet(user_contexts, B) # <<>>
        /\ Len(tasks[Observed].contents) = 6

\* C24: the contents of every model call alternate between the roles user
\* and model and end with the current message as a user turn, also when the
\* history was cut to its last 5 turns and when coroutines of the same user
\* wrote it.
C24_ContentsAlternate ==
    \A t \in Tasks :
        tasks[t].pc \in {"calling", "sleeping"} =>
            LET c == tasks[t].contents
            IN /\ c # <<>>
               /\ c[Len(c)] = Turn("user", tasks[t].user_message)
               /\ \A i \in 1..Len(c) : c[i].role \in {"user", "model"}
               /\ \A i \in 1..(Len(c) - 1) : c[i].role # c[i + 1].role

C24_Witness ==
    \E t1 \in Tasks, t2 \in Tasks :
        /\ t1 # t2
        /\ tasks[t1].pc = "calling"
        /\ Len(tasks[t1].contents) = 6
        /\ tasks[t1].contents[1].role = "model"
        /\ IsModelAnswer(tasks[t2])
        /\ tasks[t2].user_id = tasks[t1].user_id
        /\ tasks[t1].contents[5].text.turn = t2

\* C25: the system prompt of a model call has a product section exactly when
\* the product list given to get_response is not empty, and the section then
\* lists the first 5 of the given products at most, in the given order.
C25_ProductSectionIffProducts ==
    \A t \in Tasks :
        tasks[t].pc \in {"calling", "sleeping"} =>
            LET given == OrEmpty(tasks[t].products_context)
                prompt == tasks[t].system_prompt
            IN /\ prompt.has_products <=> given # <<>>
               /\ given # <<>> =>
                     /\ ~prompt.products.placeholder
                     /\ Len(prompt.products.lines) <= 5
                     /\ Len(prompt.products.lines) = (IF Len(given) < 5 THEN Len(given) ELSE 5)
                     /\ \A i \in 1..Len(prompt.products.lines) :
                           prompt.products.lines[i].id = given[i].id

\* C26: after a clear of a user's context the store never holds an exchange
\* whose utterance that user sent before the clear, also when a turn of the
\* user was waiting for the model or sleeping at the moment of the clear.
C26_NothingFromBeforeReset ==
    \A u \in DOMAIN user_contexts :
        \A i \in 1..Len(user_contexts[u]) :
            user_contexts[u][i].role = "user" => user_contexts[u][i].text.turn > reset_at[u]

\* C27: distinct senders use distinct conversation contexts: the history part
\* of the contents of a turn holds only utterances of the sender of the turn.
C27_OwnHistoryOnly ==
    \A t \in Tasks :
        tasks[t].pc \in {"calling", "sleeping"} =>
            \A i \in 1..Len(tasks[t].contents) :
                tasks[t].contents[i].role = "user" =>
                    sent_by[tasks[t].contents[i].text.turn] = sent_by[tasks[t].user_message.turn]

\* C28: when get_response falls back to the apology text, the message sent to
\* the user lists no product and has no product on its keyboard.
C28_FallbackShowsNoProducts ==
    turn.sent.text = FallbackAnswer =>
        /\ turn.sent.listed = <<>>
        /\ turn.sent.keyboard = <<>>

\* C29: when the bot's catalog connection is open and the catalog has visible
\* categories, the prompt holds their comma-joined names.
C29_PromptHoldsCategoryNames ==
    \A t \in Tasks :
        (tasks[t].pc \in {"calling", "sleeping"} /\ db.pool = "open" /\ mg_category # <<>>) =>
            tasks[t].system_prompt.categories = GetAllCategoryNames(db, mg_category)

\* C30: whatever the model calls of an invocation give, in any order, the
\* invocation makes at most 4 model calls and sleeps at most 3 times, it has
\* returned once the 4th call is over, and its answer is the model's reply or
\* the technical-error apology, never the text placed after the retry loop.
C30_BoundedAndOneApology ==
    /\ Len(trace.outcomes) <= max_retries
    /\ Len(trace.sleeps) <= max_retries - 1
    /\ Len(trace.outcomes) = max_retries => tasks[Observed].pc = "done"
    /\ tasks[Observed].pc = "done" =>
          /\ tasks[Observed].answer # LoopEndAnswer
          /\ \/ tasks[Observed].answer = FallbackAnswer
             \/ /\ IsReply(trace.outcomes[Len(trace.outcomes)])
                /\ tasks[Observed].answer =
                      Strip(ReplyText(trace.outcomes[Len(trace.outcomes)],
                                      tasks[Observed].user_message.turn))

C30_Witness ==
    /\ trace.outcomes = <<"error", "rate_limit", "error", "rate_limit">>
    /\ trace.sleeps = <<6>>
    /\ tasks[Observed].pc = "done"
    /\ tasks[Observed].answer = FallbackAnswer

====
